---- MODULE Spec2Model ----
(***************************************************************************)
(* Masai Mara wildlife co-occurrence dashboard (src/shraddha.py, with the  *)
(* near-duplicate variants src/app.py and src/Trial.py).                   *)
(*                                                                         *)
(* A data frame is a sequence of rows; a row is a record whose field "id"  *)
(* is the pandas index label the row keeps through every boolean mask.     *)
(* A sighting's position is carried as its planar coordinates (x, y) in    *)
(* metres, the image of (decimalLongitude, decimalLatitude) under          *)
(* to_crs(epsg=32736); eventDate is carried as (year, month).  Rows with   *)
(* missing fields are not drawn: dropna() removes them before anything     *)
(* else reads them.                                                        *)
(***************************************************************************)
EXTENDS Integers, Sequences, FiniteSets, TLC

VARIABLES
    pc,                    \* "load": csv read; "loaded": load_data() returned; "ready": script ran
    df,                    \* the rows read from big_5_masai_mara.csv
    gdf,                   \* the enriched observation set load_data() returns (cached)
    selected_animals,      \* sidebar multiselect
    selected_season,       \* sidebar selectbox
    year_range,            \* sidebar slider, <<lo, hi>>
    pair_a, pair_b,        \* sidebar selectboxes of the pairwise mode
    show_general_cooccur,  \* sidebar checkbox
    show_pairwise,         \* sidebar checkbox
    filtered,              \* rows of gdf passing the filter
    top_seasons,           \* one row per species of filtered: its most frequent season
    filtered_m,            \* filtered, projected, with the grid columns gx, gy
    general_cells,         \* general-mode zones
    pair_cells,            \* pairwise-mode zones
    general_markers,       \* orange markers drawn on the map
    pair_markers,          \* red markers drawn on the map
    notices,               \* st.info messages shown by the run
    exception              \* the exception that ended the run, or "none"

vars == <<pc, df, gdf, selected_animals, selected_season, year_range, pair_a, pair_b,
          show_general_cooccur, show_pairwise, filtered, top_seasons, filtered_m,
          general_cells, pair_cells, general_markers, pair_markers, notices, exception>>

widgets == <<selected_animals, selected_season, year_range, pair_a, pair_b,
             show_general_cooccur, show_pairwise>>

(***************************************************************************)
(* Bounds of the model                                                     *)
(***************************************************************************)
MaxRows == 3

(***************************************************************************)
(* Program constants                                                       *)
(***************************************************************************)
YearMin == 1990
YearMax == 2025
DefaultYearLo == 2000
grid_size == 5000

\* the species of the dataset, in sorted() order
SpeciesOrder == <<"Diceros bicornis", "Loxodonta africana", "Panthera leo">>
Species == {SpeciesOrder[i] : i \in DOMAIN SpeciesOrder}

\* the four season labels, in sorted() order
SeasonOrder == <<"Dry", "Long Rains", "Migration Peak", "Short Rains">>
Seasons == {SeasonOrder[i] : i \in DOMAIN SeasonOrder}

(***************************************************************************)
(* Sequence helpers                                                        *)
(***************************************************************************)
Range(s) == {s[i] : i \in DOMAIN s}

SeqsUpTo(S, n) == UNION {[1..m -> S] : m \in 0..n}

RankIn(order, v) == CHOOSE i \in DOMAIN order : order[i] = v

(***************************************************************************)
(* load_data                                                               *)
(***************************************************************************)
\* get_season with the first bucket shifted by one month
get_season_shifted(m) ==
    IF m \in {1, 2, 3} THEN "Dry"
    ELSE IF m \in {4, 5} THEN "Long Rains"
    ELSE IF m \in {6, 7, 8} THEN "Migration Peak"
    ELSE "Short Rains"

get_season(m) ==
    IF m \in {12, 1, 2} THEN "Dry"
    ELSE IF m \in {3, 4, 5} THEN "Long Rains"
    ELSE IF m \in {6, 7, 8} THEN "Migration Peak"
    ELSE "Short Rains"

Enrich(r) ==
    [id |-> r.id, species |-> r.species, year |-> r.year, month |-> r.month,
     season |-> get_season(r.month), x |-> r.x, y |-> r.y]

load_data(d) ==
    LET InWindow(r) == r.year >= YearMin /\ r.year <= YearMax
        kept == SelectSeq(d, InWindow)
    IN  [i \in DOMAIN kept |-> Enrich(kept[i])]

(***************************************************************************)
(* FILTER DATA                                                             *)
(***************************************************************************)
\* Filter with the upper year bound exclusive
FilterUpperExclusive(g, animals, yr, season) ==
    LET Base(r) == r.species \in animals /\ r.year >= yr[1] /\ r.year < yr[2]
        InSeason(r) == r.season = season
        base == SelectSeq(g, Base)
    IN  IF season # "All" THEN SelectSeq(base, InSeason) ELSE base

\* the mask on species and the two year bounds, then the optional season mask
Filter(g, animals, yr, season) ==
    LET Base(r) == r.species \in animals /\ r.year >= yr[1] /\ r.year <= yr[2]
        InSeason(r) == r.season = season
        base == SelectSeq(g, Base)
    IN  IF season # "All" THEN SelectSeq(base, InSeason) ELSE base

(***************************************************************************)
(* MOST FREQUENT SEASON PER SPECIES (CARDS)                                *)
(***************************************************************************)
\* groupby(["species", "season"]).size(): the number of rows of each group
SeasonCount(rows, sp, se) ==
    Cardinality({i \in DOMAIN rows : rows[i].species = sp /\ rows[i].season = se})

\* sort_values(["species", "count"], ascending=[True, False]).groupby("species").first():
\* per species the season with the largest count; the sort is stable, so among
\* equal counts the season that comes first in sorted order stays first
TopSeasons(rows) ==
    LET present == SelectSeq(SpeciesOrder, LAMBDA sp : \E i \in DOMAIN rows : rows[i].species = sp)
        Best(sp) ==
            CHOOSE se \in Seasons :
                /\ SeasonCount(rows, sp, se) > 0
                /\ \A o \in Seasons :
                      \/ SeasonCount(rows, sp, o) < SeasonCount(rows, sp, se)
                      \/ /\ SeasonCount(rows, sp, o) = SeasonCount(rows, sp, se)
                         /\ RankIn(SeasonOrder, se) <= RankIn(SeasonOrder, o)
    IN  [i \in DOMAIN present |-> [species |-> present[i], season |-> Best(present[i])]]

\* st.columns(n) raises for n < 1
StColumns(n) == IF n >= 1 THEN "none" ELSE "StreamlitAPIException"

\* Cards without the test for an empty frame
CardsUnguarded(top) == [exception |-> StColumns(Len(top)), notices |-> {}]

\* the cards, or the notice that there is nothing to show
Cards(top) ==
    IF top # <<>>
    THEN [exception |-> StColumns(Len(top)), notices |-> {}]
    ELSE [exception |-> "none", notices |-> {"No seasonal data available for the selected filters."}]

(***************************************************************************)
(* GRID-BASED CO-OCCURRENCE                                                *)
(***************************************************************************)
\* cellOf by int(v / size): the quotient truncated towards zero
cellOfTruncated(v, size) == IF v >= 0 THEN v \div size ELSE -((-v) \div size)

\* Python's // : the floor of the quotient, for either sign of v
cellOf(v, size) == v \div size

ToGrid(r) ==
    [id |-> r.id, species |-> r.species, year |-> r.year, month |-> r.month,
     season |-> r.season, x |-> r.x, y |-> r.y,
     gx |-> cellOf(r.x, grid_size), gy |-> cellOf(r.y, grid_size)]

ToMetric(rows) == [i \in DOMAIN rows |-> ToGrid(rows[i])]

CellLess(c, d) == c[1] < d[1] \/ (c[1] = d[1] /\ c[2] < d[2])

\* the group keys in the order groupby (sort=True) reports them
RECURSIVE SortCells(_)
SortCells(S) ==
    IF S = {} THEN <<>>
    ELSE LET least == CHOOSE c \in S : \A d \in S \ {c} : CellLess(c, d)
         IN  <<least>> \o SortCells(S \ {least})

\* Nunique as size(): the number of rows of the group
NuniqueAsSize(rows, cell) ==
    Cardinality({j \in DOMAIN rows : <<rows[j].gx, rows[j].gy>> = cell})

\* Nunique counting a species again whenever the previous row of the group
\* names another one (duplicates dropped only when adjacent)
NuniqueAdjacent(rows, cell) ==
    LET members == SelectSeq(rows, LAMBDA r : <<r.gx, r.gy>> = cell)
    IN  Cardinality({i \in DOMAIN members : i = 1 \/ members[i].species # members[i - 1].species})

\* Series.nunique() of one group: the number of distinct species in it
Nunique(rows, cell) ==
    Cardinality({rows[i].species : i \in {j \in DOMAIN rows : <<rows[j].gx, rows[j].gy>> = cell}})

\* groupby(["gx", "gy"])["species"].nunique().reset_index(name="species_count")
GroupNunique(rows) ==
    LET keys == SortCells({<<rows[i].gx, rows[i].gy>> : i \in DOMAIN rows})
    IN  [i \in DOMAIN keys |->
            [gx |-> keys[i][1], gy |-> keys[i][2], species_count |-> Nunique(rows, keys[i])]]

\* WithOrigin reporting the centre of the cell: half a cell added to each column
WithCentre(cells) ==
    [i \in DOMAIN cells |->
        [gx |-> cells[i].gx, gy |-> cells[i].gy, species_count |-> cells[i].species_count,
         x |-> cells[i].gx * grid_size + grid_size \div 2,
         y |-> cells[i].gy * grid_size + grid_size \div 2]]

\* the x and y columns: the cell's lower-left corner
WithOrigin(cells) ==
    [i \in DOMAIN cells |->
        [gx |-> cells[i].gx, gy |-> cells[i].gy, species_count |-> cells[i].species_count,
         x |-> cells[i].gx * grid_size, y |-> cells[i].gy * grid_size]]

\* GeneralThreshold as the pairwise test: exactly two species
GeneralThresholdExact(c) == c.species_count = 2

GeneralThreshold(c) == c.species_count >= 2

GeneralCells(rows_m) == WithOrigin(SelectSeq(GroupNunique(rows_m), GeneralThreshold))

\* PairDf without the isin mask
PairDfUnmasked(rows_m, a, b) == rows_m

PairDf(rows_m, a, b) == SelectSeq(rows_m, LAMBDA r : r.species \in {a, b})

PairThreshold(c) == c.species_count = 2

PairCells(rows_m, a, b) == WithOrigin(SelectSeq(GroupNunique(PairDf(rows_m, a, b)), PairThreshold))

(***************************************************************************)
(* MAP                                                                     *)
(***************************************************************************)
GeneralMarkers(cells, show) ==
    IF show
    THEN {[x |-> cells[i].x, y |-> cells[i].y, popup |-> cells[i].species_count] : i \in DOMAIN cells}
    ELSE {}

PairMarkers(cells, show, a, b) ==
    IF show /\ a # b
    THEN {[x |-> cells[i].x, y |-> cells[i].y, popup |-> <<a, b>>] : i \in DOMAIN cells}
    ELSE {}

(***************************************************************************)
(* One run of the script below load_data(), for the widget values given    *)
(***************************************************************************)
Script(g, animals, season, yr, a, b, showGeneral, showPair) ==
    LET f     == Filter(g, animals, yr, season)
        top   == TopSeasons(f)
        cards == Cards(top)
        fm    == ToMetric(f)
        gen   == GeneralCells(fm)
        pair  == PairCells(fm, a, b)
    IN  IF cards.exception # "none"
        THEN [filtered |-> f, top_seasons |-> top, filtered_m |-> <<>>,
              general_cells |-> <<>>, pair_cells |-> <<>>,
              general_markers |-> {}, pair_markers |-> {},
              notices |-> cards.notices, exception |-> cards.exception]
        ELSE [filtered |-> f, top_seasons |-> top, filtered_m |-> fm,
              general_cells |-> gen, pair_cells |-> pair,
              general_markers |-> GeneralMarkers(gen, showGeneral),
              pair_markers |-> PairMarkers(pair, showPair, a, b),
              notices |-> cards.notices, exception |-> "none"]

\* Rerun reading the widget values of the run before (a result kept from it)
RerunStale ==
    \E out \in {Script(gdf', selected_animals, selected_season, year_range,
                      pair_a, pair_b, show_general_cooccur, show_pairwise)} :
        /\ filtered' = out.filtered
        /\ top_seasons' = out.top_seasons
        /\ filtered_m' = out.filtered_m
        /\ general_cells' = out.general_cells
        /\ pair_cells' = out.pair_cells
        /\ general_markers' = out.general_markers
        /\ pair_markers' = out.pair_markers
        /\ notices' = out.notices
        /\ exception' = out.exception

\* the script's outputs after a run with the primed widget values
Rerun ==
    \E out \in {Script(gdf', selected_animals', selected_season', year_range',
                      pair_a', pair_b', show_general_cooccur', show_pairwise')} :
        /\ filtered' = out.filtered
        /\ top_seasons' = out.top_seasons
        /\ filtered_m' = out.filtered_m
        /\ general_cells' = out.general_cells
        /\ pair_cells' = out.pair_cells
        /\ general_markers' = out.general_markers
        /\ pair_markers' = out.pair_markers
        /\ notices' = out.notices
        /\ exception' = out.exception

(***************************************************************************)
(* SIDEBAR FILTERS: the options each widget offers                         *)
(***************************************************************************)
\* sorted(gdf["species"].unique())
SpeciesOptions(g) == SelectSeq(SpeciesOrder, LAMBDA sp : \E i \in DOMAIN g : g[i].species = sp)

\* ["All"] + sorted(gdf["season"].unique())
SeasonOptions(g) ==
    <<"All">> \o SelectSeq(SeasonOrder, LAMBDA se : \E i \in DOMAIN g : g[i].season = se)

\* the values the slider's two handles are moved to
YearStops == {2000, 2010, YearMax}

YearRanges == {yr \in YearStops \X YearStops : yr[1] <= yr[2]}

(***************************************************************************)
(* Initial states: the csv has been read                                   *)
(***************************************************************************)
RawRow(sp, yr, mo, pt) == [species |-> sp, year |-> yr, month |-> mo, x |-> pt[1], y |-> pt[2]]

\* read_csv gives row i the index label i
WithIds(rows) ==
    [i \in DOMAIN rows |->
        [id |-> i, species |-> rows[i].species, year |-> rows[i].year,
         month |-> rows[i].month, x |-> rows[i].x, y |-> rows[i].y]]

InitFrom(pool) ==
    /\ pc = "load"
    /\ df \in {WithIds(rows) : rows \in SeqsUpTo(pool, MaxRows)}
    /\ gdf = <<>>
    /\ selected_animals = {}
    /\ selected_season = "All"
    /\ year_range = <<DefaultYearLo, YearMax>>
    /\ pair_a = "" /\ pair_b = ""
    /\ show_general_cooccur = TRUE
    /\ show_pairwise = TRUE
    /\ filtered = <<>> /\ top_seasons = <<>> /\ filtered_m = <<>>
    /\ general_cells = <<>> /\ pair_cells = <<>>
    /\ general_markers = {} /\ pair_markers = {}
    /\ notices = {} /\ exception = "none"

(***************************************************************************)
(* Actions                                                                 *)
(***************************************************************************)
\* gdf = load_data()
LoadData ==
    /\ pc = "load"
    /\ gdf' = load_data(df)
    /\ pc' = "loaded"
    /\ UNCHANGED <<df, widgets, filtered, top_seasons, filtered_m, general_cells, pair_cells,
                   general_markers, pair_markers, notices, exception>>

\* the first run of the script: every widget takes its default.  The second
\* pair selectbox asks for the option at index 1, so the run needs two species.
FirstRun ==
    /\ pc = "loaded"
    /\ Len(SpeciesOptions(gdf)) >= 2
    /\ selected_animals' = Range(SpeciesOptions(gdf))
    /\ selected_season' = "All"
    /\ year_range' = <<DefaultYearLo, YearMax>>
    /\ pair_a' = SpeciesOptions(gdf)[1]
    /\ pair_b' = SpeciesOptions(gdf)[2]
    /\ show_general_cooccur' = TRUE
    /\ show_pairwise' = TRUE
    /\ pc' = "ready"
    /\ UNCHANGED <<df, gdf>>
    /\ Rerun

ChangeAnimals ==
    /\ pc = "ready"
    /\ \E sel \in SUBSET Range(SpeciesOptions(gdf)) :
         /\ sel # selected_animals
         /\ selected_animals' = sel
    /\ UNCHANGED <<pc, df, gdf, selected_season, year_range, pair_a, pair_b,
                   show_general_cooccur, show_pairwise>>
    /\ Rerun

ChangeSeason ==
    /\ pc = "ready"
    /\ \E se \in Range(SeasonOptions(gdf)) :
         /\ se # selected_season
         /\ selected_season' = se
    /\ UNCHANGED <<pc, df, gdf, selected_animals, year_range, pair_a, pair_b,
                   show_general_cooccur, show_pairwise>>
    /\ Rerun

ChangeYearRange ==
    /\ pc = "ready"
    /\ \E yr \in YearRanges :
         /\ yr # year_range
         /\ year_range' = yr
    /\ UNCHANGED <<pc, df, gdf, selected_animals, selected_season, pair_a, pair_b,
                   show_general_cooccur, show_pairwise>>
    /\ Rerun

ChangePairA ==
    /\ pc = "ready"
    /\ \E sp \in Range(SpeciesOptions(gdf)) :
         /\ sp # pair_a
         /\ pair_a' = sp
    /\ UNCHANGED <<pc, df, gdf, selected_animals, selected_season, year_range, pair_b,
                   show_general_cooccur, show_pairwise>>
    /\ Rerun

ChangePairB ==
    /\ pc = "ready"
    /\ \E sp \in Range(SpeciesOptions(gdf)) :
         /\ sp # pair_b
         /\ pair_b' = sp
    /\ UNCHANGED <<pc, df, gdf, selected_animals, selected_season, year_range, pair_a,
                   show_general_cooccur, show_pairwise>>
    /\ Rerun

ToggleGeneral ==
    /\ pc = "ready"
    /\ show_general_cooccur' = ~show_general_cooccur
    /\ UNCHANGED <<pc, df, gdf, selected_animals, selected_season, year_range, pair_a, pair_b,
                   show_pairwise>>
    /\ Rerun

TogglePairwise ==
    /\ pc = "ready"
    /\ show_pairwise' = ~show_pairwise
    /\ UNCHANGED <<pc, df, gdf, selected_animals, selected_season, year_range, pair_a, pair_b,
                   show_general_cooccur>>
    /\ Rerun

(***************************************************************************)
(* Specifications.  Each draws the csv from its own pool of rows and moves *)
(* the widgets its claims are about.                                       *)
(***************************************************************************)
NearBoundary == <<4999, 100>>
OnBoundary == <<5000, 100>>

\* the dashboard with every widget
DashPool ==
    {RawRow(sp, yr, 1, NearBoundary) : sp \in Species, yr \in {2010}}
        \cup {RawRow(SpeciesOrder[1], 1989, 7, OnBoundary)}

Init == InitFrom(DashPool)

Next ==
    \/ LoadData
    \/ FirstRun
    \/ ChangeAnimals
    \/ ChangeSeason
    \/ ChangeYearRange
    \/ ChangePairA
    \/ ChangePairB
    \/ ToggleGeneral
    \/ TogglePairwise

Spec == Init /\ [][Next]_vars

\* get_season over month arguments inside and outside 1..12
MonthArgs == 0..13

SeasonPool == {RawRow(SpeciesOrder[1], 2010, m, NearBoundary) : m \in MonthArgs}

InitSeason == InitFrom(SeasonPool)

NextSeason == LoadData

SpecSeason == InitSeason /\ [][NextSeason]_vars

\* grid indexing of points on both sides of a cell boundary and of the origin
GridPoints == {<<-5000, -1>>, <<-1, -5000>>, NearBoundary, OnBoundary}

GridPool == {RawRow(sp, 2010, 1, pt) : sp \in {SpeciesOrder[1], SpeciesOrder[2]}, pt \in GridPoints}

InitGrid == InitFrom(GridPool)

NextGrid == LoadData \/ FirstRun

SpecGrid == InitGrid /\ [][NextGrid]_vars

\* detection over three species in two neighbouring cells
DetectPool == {RawRow(sp, 2010, 1, pt) : sp \in Species, pt \in {NearBoundary, OnBoundary}}

InitDetect == InitFrom(DetectPool)

NextDetect == LoadData \/ FirstRun \/ ChangeAnimals \/ ChangePairA \/ ChangePairB

SpecDetect == InitDetect /\ [][NextDetect]_vars

\* the filter over rows that differ in species, year and season
FilterPool ==
    {RawRow(sp, ym[1], ym[2], NearBoundary) :
        sp \in {SpeciesOrder[1], SpeciesOrder[2]}, ym \in {<<2000, 1>>, <<2010, 1>>, <<2010, 7>>}}

InitFilter == InitFrom(FilterPool)

NextFilter == LoadData \/ FirstRun \/ ChangeAnimals \/ ChangeSeason \/ ChangeYearRange

SpecFilter == InitFilter /\ [][NextFilter]_vars

\* narrowing the species selection and the year range
MonoPool ==
    {RawRow(sp, 2010, 1, pt) : sp \in Species, pt \in {NearBoundary, OnBoundary}}
        \cup {RawRow(sp, 2000, 1, NearBoundary) : sp \in {SpeciesOrder[1], SpeciesOrder[2]}}

InitMono == InitFrom(MonoPool)

NextMono == LoadData \/ FirstRun \/ ChangeAnimals \/ ChangeYearRange

SpecMono == InitMono /\ [][NextMono]_vars

\* a session of filter-parameter changes over two species, two years, two seasons
SessionPool ==
    {RawRow(SpeciesOrder[1], 2010, 1, NearBoundary), RawRow(SpeciesOrder[2], 2010, 1, NearBoundary),
     RawRow(SpeciesOrder[2], 2000, 7, NearBoundary), RawRow(SpeciesOrder[1], 1989, 7, OnBoundary)}

InitSession == InitFrom(SessionPool)

NextSession ==
    \/ LoadData
    \/ FirstRun
    \/ ChangeAnimals
    \/ ChangeSeason
    \/ ChangeYearRange
    \/ ChangePairA
    \/ ChangePairB

SpecSession == InitSession /\ [][NextSession]_vars

(***************************************************************************)
(* Properties                                                              *)
(***************************************************************************)
\* the cells a property ranges over
CellUniverse == (-2..2) \X (-2..2)

\* r lies in the half-open square of cell c
InCell(r, c) ==
    /\ c[1] * grid_size <= r.x /\ r.x < (c[1] + 1) * grid_size
    /\ c[2] * grid_size <= r.y /\ r.y < (c[2] + 1) * grid_size

SpeciesIn(rows, c) == {rows[i].species : i \in {j \in DOMAIN rows : InCell(rows[j], c)}}

ZonesAt(cells, c) == {i \in DOMAIN cells : cells[i].gx = c[1] /\ cells[i].gy = c[2]}

CellsOf(cells) == {<<cells[i].gx, cells[i].gy>> : i \in DOMAIN cells}

SeasonNotice == "No seasonal data available for the selected filters."

\* C1: general mode emits a zone for a cell exactly when the filtered
\* observations in the cell name at least two distinct species, the zone's
\* species_count is that number, and a cell holding one species only, however
\* many times, is never emitted.
C1_GeneralDetection ==
    pc = "ready" =>
        /\ CellsOf(general_cells) \subseteq CellUniverse
        /\ \A c \in CellUniverse :
             /\ Cardinality(ZonesAt(general_cells, c))
                    = (IF Cardinality(SpeciesIn(filtered, c)) >= 2 THEN 1 ELSE 0)
             /\ \A i \in ZonesAt(general_cells, c) :
                    general_cells[i].species_count = Cardinality(SpeciesIn(filtered, c))

\* a zone of two species beside a cell where one species only was seen
C1_Witness ==
    /\ pc = "ready"
    /\ \E i \in DOMAIN general_cells : general_cells[i].species_count = 2
    /\ \E c \in CellUniverse :
         /\ Cardinality(SpeciesIn(filtered, c)) = 1
         /\ ZonesAt(general_cells, c) = {}

\* C2: with pair_a # pair_b, pairwise mode emits a zone (and draws its marker)
\* for a cell exactly when the filtered observations in the cell include one
\* of pair_a and one of pair_b; a cell with only one of the two is not emitted.
C2_PairwiseDetection ==
    (pc = "ready" /\ pair_a # pair_b) =>
        /\ CellsOf(pair_cells) \subseteq CellUniverse
        /\ \A c \in CellUniverse :
             Cardinality(ZonesAt(pair_cells, c))
                = (IF {pair_a, pair_b} \subseteq SpeciesIn(filtered, c) THEN 1 ELSE 0)
        /\ show_pairwise =>
             {<<m.x, m.y>> : m \in pair_markers}
                = {<<pair_cells[i].x, pair_cells[i].y>> : i \in DOMAIN pair_cells}

\* a pairwise zone beside a cell that holds one of the pair and another species
C2_Witness ==
    /\ pc = "ready" /\ pair_a # pair_b
    /\ pair_cells # <<>> /\ pair_markers # {}
    /\ \E c \in CellUniverse :
         /\ Cardinality(SpeciesIn(filtered, c) \cap {pair_a, pair_b}) = 1
         /\ ZonesAt(pair_cells, c) = {}

\* a pair of one species in a cell with a third one
C2_OtherSpeciesWitness ==
    /\ pc = "ready" /\ pair_a # pair_b
    /\ \E c \in CellUniverse :
         /\ Cardinality(SpeciesIn(filtered, c) \cap {pair_a, pair_b}) = 1
         /\ Cardinality(SpeciesIn(filtered, c)) = 2
         /\ ZonesAt(pair_cells, c) = {}

\* C3: a pairwise run with pair_a = pair_b is reported to the caller (an
\* exception, or a notice other than the one for an empty filter); it is never
\* a silent empty set of pairwise zones.
C3_SamePairReported ==
    (pc = "ready" /\ show_pairwise /\ pair_a = pair_b) =>
        (exception # "none" \/ notices \ {SeasonNotice} # {})

\* the claim's predicate on an observation
Matches(r) ==
    /\ r.species \in selected_animals
    /\ year_range[1] <= r.year /\ r.year <= year_range[2]
    /\ (selected_season = "All" \/ r.season = selected_season)

\* C4: the filter returns exactly the observations with species in the
\* selection, year within the two inclusive bounds and, unless the season is
\* "All", the selected season: none dropped, none kept wrongly, none repeated.
C4_FilterExact ==
    pc = "ready" =>
        /\ Range(filtered) = {r \in Range(gdf) : Matches(r)}
        /\ Len(filtered) = Cardinality({i \in DOMAIN gdf : Matches(gdf[i])})

\* a season is selected, a row on the upper year bound is kept, a row is dropped
C4_Witness ==
    /\ pc = "ready"
    /\ selected_season # "All"
    /\ year_range[2] < YearMax
    /\ \E i \in DOMAIN filtered : filtered[i].year = year_range[2]
    /\ \E i \in DOMAIN gdf : gdf[i].year > year_range[2]
    /\ \E i \in DOMAIN gdf : gdf[i].season # selected_season

\* C5: when the filter matches nothing the run ends without an exception and
\* with no zone and no zone marker, in general and in pairwise mode.
C5_EmptyFilterNoError ==
    (pc = "ready" /\ filtered = <<>>) =>
        /\ exception = "none"
        /\ general_cells = <<>> /\ pair_cells = <<>>
        /\ general_markers = {} /\ pair_markers = {}

\* observations were loaded and the filter matched none of them
C5_Witness ==
    /\ pc = "ready"
    /\ gdf # <<>>
    /\ filtered = <<>>
    /\ notices = {SeasonNotice}

\* the cell sizes and coordinates cellOf is tried on besides the run's own
CellSizes == {1, 3, 7, grid_size}
Coordinates == (-8..8) \cup {-5001, -5000, -4999, -1, 0, 4999, 5000, 5001}

\* C6: cellOf is floor division with half-open cells: the cell of a point is
\* the one pair of integers whose square holds the point, for negative
\* coordinates too; (4999, 100) lies in cell (0, 0) and (5000, 100) in (1, 0).
C6_FloorHalfOpen ==
    pc = "ready" =>
        /\ Len(filtered_m) = Len(filtered)
        /\ \A i \in DOMAIN filtered_m :
             LET r == filtered_m[i]
             IN  /\ r.id = filtered[i].id /\ r.x = filtered[i].x /\ r.y = filtered[i].y
                 /\ InCell(r, <<r.gx, r.gy>>)
                 /\ \A c \in CellUniverse : InCell(r, c) => c = <<r.gx, r.gy>>
                 /\ (r.x = 4999 /\ r.y = 100) => <<r.gx, r.gy>> = <<0, 0>>
                 /\ (r.x = 5000 /\ r.y = 100) => <<r.gx, r.gy>> = <<1, 0>>
        /\ \A size \in CellSizes : \A v \in Coordinates :
             cellOf(v, size) * size <= v /\ v < (cellOf(v, size) + 1) * size

\* points on both sides of the boundary and a point with negative coordinates
C6_Witness ==
    /\ pc = "ready"
    /\ \E i \in DOMAIN filtered_m : filtered_m[i].x = 4999 /\ filtered_m[i].gx = 0
    /\ \E i \in DOMAIN filtered_m : filtered_m[i].x = 5000 /\ filtered_m[i].gx = 1
    /\ \E i \in DOMAIN filtered_m : filtered_m[i].x < 0 /\ filtered_m[i].gx = -1

\* the mapping of section 4.1, month by month
SeasonTable ==
    <<"Dry", "Dry", "Long Rains", "Long Rains", "Long Rains", "Migration Peak",
      "Migration Peak", "Migration Peak", "Short Rains", "Short Rains", "Short Rains", "Dry">>

\* C7: every month of 1..12 is given the season of the fixed mapping.
C7_SeasonMapping ==
    pc = "loaded" =>
        /\ Len(gdf) = Len(df)
        /\ \A i \in DOMAIN gdf :
             /\ gdf[i].month = df[i].month
             /\ gdf[i].month \in 1..12 => gdf[i].season = SeasonTable[gdf[i].month]

\* rows of December and of March have been classified
C7_Witness ==
    /\ pc = "loaded"
    /\ \E i \in DOMAIN gdf : gdf[i].month = 12 /\ gdf[i].season = "Dry"
    /\ \E i \in DOMAIN gdf : gdf[i].month = 3 /\ gdf[i].season = "Long Rains"

\* C8: a month outside 1..12 is never given one of the four seasons.
C8_InvalidMonthRejected ==
    pc = "loaded" =>
        \A i \in DOMAIN gdf : gdf[i].month \notin 1..12 => gdf[i].season \notin Seasons

\* the zones of a general-mode run on the loaded observations
GeneralRun(animals, yr, season) == GeneralCells(ToMetric(Filter(gdf, animals, yr, season)))

\* C9: for the loaded observations and the selected season, a run with a
\* subset of the selected species and a year range inside the selected one
\* yields no more zones than the run in effect, and only cells that run yields.
C9_Monotone ==
    pc = "ready" =>
        \A animals \in SUBSET selected_animals :
            \A yr \in {r \in YearRanges : year_range[1] <= r[1] /\ r[2] <= year_range[2]} :
                LET narrow == GeneralRun(animals, yr, selected_season)
                IN  /\ Len(narrow) <= Len(general_cells)
                    /\ CellsOf(narrow) \subseteq CellsOf(general_cells)

\* a narrowed selection and year range under which a zone is still found
C9_Witness ==
    /\ pc = "ready"
    /\ selected_animals # Range(SpeciesOptions(gdf))
    /\ year_range = <<2010, 2010>>
    /\ general_cells # <<>>
    /\ Len(filtered) < Len(gdf)

RowOrders(n) == {p \in [1..n -> 1..n] : \A i, j \in 1..n : p[i] = p[j] => i = j}

Permuted(rows, p) == [i \in DOMAIN rows |-> rows[p[i]]]

ZoneSet(cells) == Range(cells)

\* C10: the zones of both modes are the same set for every order in which the
\* filtered observations are presented, and a second run on the same set
\* yields the zone sets in effect.
C10_OrderIndependent ==
    pc = "ready" =>
        \A p \in RowOrders(Len(filtered)) :
            LET rows_m == ToMetric(Permuted(filtered, p))
            IN  /\ ZoneSet(GeneralCells(rows_m)) = ZoneSet(general_cells)
                /\ ZoneSet(PairCells(rows_m, pair_a, pair_b)) = ZoneSet(pair_cells)

\* three observations, not in species order, two of them in one zone
C10_Witness ==
    /\ pc = "ready"
    /\ Len(filtered) >= 3
    /\ filtered[1].species = filtered[3].species
    /\ filtered[1].species # filtered[2].species
    /\ general_cells # <<>> /\ pair_cells # <<>>

\* the enriched observation set as load_data() built it from the csv
Enriched ==
    /\ \A i \in DOMAIN gdf :
         \E j \in DOMAIN df :
            /\ gdf[i].id = df[j].id /\ gdf[i].species = df[j].species
            /\ gdf[i].year = df[j].year /\ gdf[i].month = df[j].month
            /\ gdf[i].x = df[j].x /\ gdf[i].y = df[j].y
            /\ gdf[i].season = get_season(df[j].month)
    /\ Len(gdf) = Cardinality({j \in DOMAIN df : YearMin <= df[j].year /\ df[j].year <= YearMax})

\* C11: after any sequence of changes of the species selection, the season,
\* the year range and the pair, the zone sets (and their markers) in effect
\* are those of the full pipeline run on the enriched observation set with the
\* current widget values alone, and the enriched set is still the one
\* load_data() built.
C11_RecomputedFromCurrent ==
    pc = "ready" =>
        /\ Enriched
        /\ LET f    == Filter(gdf, selected_animals, year_range, selected_season)
               gen  == GeneralCells(ToMetric(f))
               pair == PairCells(ToMetric(f), pair_a, pair_b)
           IN  /\ filtered = f
               /\ general_cells = gen
               /\ pair_cells = pair
               /\ general_markers = GeneralMarkers(gen, show_general_cooccur)
               /\ pair_markers = PairMarkers(pair, show_pairwise, pair_a, pair_b)

\* every one of the four parameters has left its default and a zone is in effect
C11_Witness ==
    /\ pc = "ready"
    /\ selected_animals = Range(SpeciesOptions(gdf))
    /\ selected_season # "All"
    /\ year_range # <<DefaultYearLo, YearMax>>
    /\ pair_a = SpeciesOptions(gdf)[2] /\ pair_b = SpeciesOptions(gdf)[1]
    /\ Len(gdf) < Len(df)
    /\ general_cells # <<>> /\ pair_cells # <<>>

\* the planar point of section 4.3 for a cell
cellOrigin(c, size) == <<c[1] * size, c[2] * size>>

\* the zones of both modes
AllZones == Range(general_cells) \cup Range(pair_cells)

\* C12: the point reported for every zone of either mode, and drawn as its
\* marker, is the lower-left corner (gx * grid_size, gy * grid_size) of the
\* zone's cell with no half-cell offset, and indexing that corner gives the
\* cell back, for negative indices too.
C12_ZonePointIsOrigin ==
    pc = "ready" =>
        /\ \A z \in AllZones :
             /\ <<z.x, z.y>> = cellOrigin(<<z.gx, z.gy>>, grid_size)
             /\ <<cellOf(z.x, grid_size), cellOf(z.y, grid_size)>> = <<z.gx, z.gy>>
             /\ \E i \in DOMAIN filtered_m : <<filtered_m[i].gx, filtered_m[i].gy>> = <<z.gx, z.gy>>
        /\ {<<m.x, m.y>> : m \in general_markers}
              = {cellOrigin(<<general_cells[i].gx, general_cells[i].gy>>, grid_size) :
                    i \in DOMAIN general_cells}
        /\ {<<m.x, m.y>> : m \in pair_markers}
              = {cellOrigin(<<pair_cells[i].gx, pair_cells[i].gy>>, grid_size) :
                    i \in DOMAIN pair_cells}
        /\ \A c \in CellUniverse :
             LET o == cellOrigin(c, grid_size)
             IN  <<cellOf(o[1], grid_size), cellOf(o[2], grid_size)>> = c

\* a zone of each mode, drawn, in a cell of negative indices
C12_Witness ==
    /\ pc = "ready"
    /\ \E i \in DOMAIN general_cells : general_cells[i].gx < 0 /\ general_cells[i].gy < 0
    /\ \E i \in DOMAIN pair_cells : pair_cells[i].gx < 0 /\ pair_cells[i].gy < 0
    /\ \E m \in general_markers : m.x = -grid_size /\ m.y = -grid_size
    /\ \E m \in pair_markers : m.x = -grid_size /\ m.y = -grid_size

====
